---- MODULE Spec2Model ----
(***************************************************************************)
(* Model of sample_warning_system.py: the file-backed folder configuration *)
(* (load_config / save_config / config_editor / the sidebar of             *)
(* process_tables) and the multi-folder extraction and date-warning        *)
(* pipeline (process_tables / process_date_warnings).                      *)
(*                                                                         *)
(* Two specifications share the variables:                                 *)
(*   SpecConfig  the user operations on the configuration store            *)
(*   SpecRun     one pipeline run after another over a loaded folder list  *)
(* File-system writes are assumed to succeed (the except branches of       *)
(* save_config are outside the model).                                     *)
(***************************************************************************)
EXTENDS Integers, Sequences, FiniteSets, TLC

VARIABLES folders, disk, exported, exportedFrom, uploaded, lastOp,
          pc, i, visited, all_tables, all_warning_samples, folder_status,
          merged_all, combined_warnings

configVars == <<folders, disk, exported, exportedFrom, uploaded, lastOp>>
runVars == <<pc, i, visited, all_tables, all_warning_samples, folder_status,
             merged_all, combined_warnings>>
vars == <<folders, disk, exported, exportedFrom, uploaded, lastOp,
          pc, i, visited, all_tables, all_warning_samples, folder_status,
          merged_all, combined_warnings>>

\* Longest folder list the model builds.
MaxFolders == 2

\* merged_all = None: no DataFrame
NoneDF == [columns |-> {}, rows |-> <<>>]

\* folder_status before the loop
EmptyStatus == [success |-> <<>>, empty |-> <<>>, error |-> <<>>, file_errors |-> <<>>]

(***************************************************************************)
(* Python values of a folder entry.  end_column is a str or None.          *)
(***************************************************************************)
PyNone == [t |-> "None", s |-> ""]
PyStr(s) == [t |-> "str", s |-> s]

\* `end_col if end_col else None`: the empty text input becomes None.
EndColumnOf(end_col) == IF end_col # "" THEN PyStr(end_col) ELSE PyNone

\* the dict built by both add forms
NewFolder(folder_name, folder_path, start_col, end_col, warning_days, stability_days) ==
    [name |-> folder_name,
     path |-> folder_path,
     rule |-> [start_column |-> start_col,
               end_column |-> EndColumnOf(end_col),
               warning_days |-> warning_days,
               stability_days |-> stability_days]]

(***************************************************************************)
(* JSON text, as a sequence of tokens.                                     *)
(***************************************************************************)
P(c) == [t |-> "punct", s |-> c, n |-> 0]
JStr(s) == [t |-> "str", s |-> s, n |-> 0]
JNum(n) == [t |-> "num", s |-> "", n |-> n]
JNull == [t |-> "null", s |-> "", n |-> 0]

\* json.dumps of a str-or-None value
DumpOpt(v) == IF v.t = "None" THEN JNull ELSE JStr(v.s)

DumpRule(rule) ==
    << P("{"), JStr("start_column"), P(":"), JStr(rule.start_column), P(","),
       JStr("end_column"), P(":"), DumpOpt(rule.end_column), P(","),
       JStr("warning_days"), P(":"), JNum(rule.warning_days), P(","),
       JStr("stability_days"), P(":"), JNum(rule.stability_days), P("}") >>

DumpEntry(e) ==
    << P("{"), JStr("name"), P(":"), JStr(e.name), P(","),
       JStr("path"), P(":"), JStr(e.path), P(","),
       JStr("rule"), P(":") >> \o DumpRule(e.rule) \o << P("}") >>

\* number of tokens of one dumped folder entry
EntryTokens == 29

RECURSIVE DumpEntries(_)
DumpEntries(list) ==
    IF list = <<>> THEN <<>>
    ELSE IF Len(list) = 1 THEN DumpEntry(list[1])
    ELSE DumpEntry(list[1]) \o << P(",") >> \o DumpEntries(Tail(list))

\* json.dumps({'folders': list}) / json.dump(config, f)
JsonDumps(list) ==
    << P("{"), JStr("folders"), P(":"), P("[") >> \o DumpEntries(list)
       \o << P("]"), P("}") >>

\* One folder entry read back from 29 tokens; ok = FALSE on malformed text.
ParseEntry(seg) ==
    LET shape == /\ Len(seg) = EntryTokens
                 /\ seg[1] = P("{") /\ seg[2] = JStr("name") /\ seg[3] = P(":")
                 /\ seg[4].t = "str" /\ seg[5] = P(",")
                 /\ seg[6] = JStr("path") /\ seg[7] = P(":")
                 /\ seg[8].t = "str" /\ seg[9] = P(",")
                 /\ seg[10] = JStr("rule") /\ seg[11] = P(":") /\ seg[12] = P("{")
                 /\ seg[13] = JStr("start_column") /\ seg[14] = P(":")
                 /\ seg[15].t = "str" /\ seg[16] = P(",")
                 /\ seg[17] = JStr("end_column") /\ seg[18] = P(":")
                 /\ seg[19].t \in {"str", "null"} /\ seg[20] = P(",")
                 /\ seg[21] = JStr("warning_days") /\ seg[22] = P(":")
                 /\ seg[23].t = "num" /\ seg[24] = P(",")
                 /\ seg[25] = JStr("stability_days") /\ seg[26] = P(":")
                 /\ seg[27].t = "num" /\ seg[28] = P("}") /\ seg[29] = P("}")
    IN IF shape
       THEN [ok |-> TRUE,
             entry |-> [name |-> seg[4].s,
                        path |-> seg[8].s,
                        rule |-> [start_column |-> seg[15].s,
                                  end_column |-> IF seg[19].t = "null" THEN PyNone
                                                 ELSE PyStr(seg[19].s),
                                  warning_days |-> seg[23].n,
                                  stability_days |-> seg[27].n]]]
       ELSE [ok |-> FALSE, entry |-> <<>>]

\* The entries between "[" and "]"; toks excludes the brackets.
RECURSIVE ParseEntries(_)
ParseEntries(toks) ==
    IF toks = <<>> THEN [ok |-> TRUE, list |-> <<>>]
    ELSE IF Len(toks) < EntryTokens THEN [ok |-> FALSE, list |-> <<>>]
    ELSE LET first == ParseEntry(SubSeq(toks, 1, EntryTokens))
             more == SubSeq(toks, EntryTokens + 1, Len(toks))
         IN IF ~first.ok THEN [ok |-> FALSE, list |-> <<>>]
            ELSE IF more = <<>> THEN [ok |-> TRUE, list |-> <<first.entry>>]
            ELSE IF more[1] # P(",") \/ Len(more) = 1 THEN [ok |-> FALSE, list |-> <<>>]
            ELSE LET rest == ParseEntries(Tail(more))
                 IN IF rest.ok THEN [ok |-> TRUE, list |-> <<first.entry>> \o rest.list]
                    ELSE [ok |-> FALSE, list |-> <<>>]

\* json.load: ok = FALSE stands for JSONDecodeError.  A document is a dict
\* with at most one member (a list of folder entries or a number) or a list.
JsonLoad(text) ==
    LET bad == [ok |-> FALSE, kind |-> "", keys |-> {}, folders |-> <<>>]
        n == Len(text)
    IN IF n < 2 THEN bad
       ELSE IF text = << P("["), P("]") >>
            THEN [ok |-> TRUE, kind |-> "list", keys |-> {}, folders |-> <<>>]
       ELSE IF text[1] # P("{") \/ text[n] # P("}") THEN bad
       ELSE IF n = 2 THEN [ok |-> TRUE, kind |-> "dict", keys |-> {}, folders |-> <<>>]
       ELSE IF n < 5 \/ text[2].t # "str" \/ text[3] # P(":") THEN bad
       ELSE IF n = 5 /\ text[4].t = "num"
            THEN [ok |-> TRUE, kind |-> "dict", keys |-> {text[2].s}, folders |-> <<>>]
       ELSE IF n < 6 \/ text[4] # P("[") \/ text[n - 1] # P("]") THEN bad
       ELSE LET body == ParseEntries(SubSeq(text, 5, n - 2))
            IN IF body.ok
               THEN [ok |-> TRUE, kind |-> "dict", keys |-> {text[2].s},
                     folders |-> body.list]
               ELSE bad

(***************************************************************************)
(* The configuration file: no file, unreadable text, or JSON text.         *)
(***************************************************************************)
NoFile == << P("<absent>") >>

load_config(config_file) ==
    IF config_file = NoFile THEN <<>>
    ELSE LET config == JsonLoad(config_file)
         IN IF ~config.ok THEN <<>>
            ELSE IF "folders" \in config.keys THEN config.folders
            ELSE <<>>

save_config(list) == JsonDumps(list)

(***************************************************************************)
(* User operations on the configuration store (SpecConfig).                *)
(***************************************************************************)
\* text typed into the add forms
FormNames == {"A"}
FormPaths == {"/data/a"}
FormStartCols == {"start"}
FormEndCols == {"", "end"}
FormWarningDays == {180}
FormStabilityDays == {365}

FormEntries ==
    { NewFolder(n, p, sc, ec, w, s) :
        n \in FormNames, p \in FormPaths, sc \in FormStartCols,
        ec \in FormEndCols, w \in FormWarningDays, s \in FormStabilityDays }

\* folder lists of at most MaxFolders form entries
ConfigLists == UNION { [1..k -> FormEntries] : k \in 0..MaxFolders }

\* an existing file that is not JSON
Unreadable == << P("{"), JStr("folders") >>

\* documents offered to the uploader besides the last export
UploadDocs ==
    { << P("{"), P("}") >>,
      << P("{"), JStr("version"), P(":"), JNum(1), P("}") >>,
      << P("["), P("]") >>,
      Unreadable,
      JsonDumps(<<>>),
      << P("{"), JStr("folder"), P(":"), P("[") >>
         \o DumpEntry(NewFolder("A", "/data/a", "start", "", 180, 365))
         \o << P("]"), P("}") >>,
      JsonDumps(<< NewFolder("B", "/data/a", "start", "end", 180, 365) >>) }

\* `if 'folders' in imported_config`
ImportHasFoldersAlways(imported_config) == imported_config.kind = "dict"
ImportHasFolders(imported_config) ==
    imported_config.kind = "dict" /\ "folders" \in imported_config.keys

\* `st.session_state.folders = imported_config['folders']`
ImportedFoldersAppended(current, imported_config) == current \o imported_config.folders
ImportedFolders(current, imported_config) == imported_config.folders

\* `save_config(st.session_state.folders)` after a mutation
SavedAfterForgotten(list) == JsonDumps(<<>>)
SavedAfter(list) == save_config(list)

IdleRun == UNCHANGED runVars

\* process_tables sidebar form "添加"
AddFolder ==
    /\ Len(folders) < MaxFolders
    /\ \E new_folder \in FormEntries :
          /\ folders' = Append(folders, new_folder)
          /\ disk' = SavedAfter(folders')
    /\ lastOp' = "add_folder"
    /\ UNCHANGED <<exported, exportedFrom, uploaded>>
    /\ IdleRun

\* config_editor form "添加配置"
AddConfig ==
    /\ Len(folders) < MaxFolders
    /\ \E new_config \in FormEntries :
          /\ folders' = Append(folders, new_config)
          /\ disk' = SavedAfter(folders')
    /\ lastOp' = "add_config"
    /\ UNCHANGED <<exported, exportedFrom, uploaded>>
    /\ IdleRun

\* list.pop(k) for a valid position
Pop(list, k) == SubSeq(list, 1, k - 1) \o SubSeq(list, k + 1, Len(list))

\* button "删除文件夹 k"
DeleteFolder ==
    /\ \E k \in 1..Len(folders) :
          /\ folders' = Pop(folders, k)
          /\ disk' = SavedAfter(folders')
    /\ lastOp' = "delete"
    /\ UNCHANGED <<exported, exportedFrom, uploaded>>
    /\ IdleRun

\* button "清除现有配置": the session list only
ClearCurrent ==
    /\ folders' = <<>>
    /\ lastOp' = "clear_current"
    /\ UNCHANGED <<disk, exported, exportedFrom, uploaded>>
    /\ IdleRun

\* button "清除所有配置"
ClearAll ==
    /\ folders' = <<>>
    /\ disk' = save_config(<<>>)
    /\ lastOp' = "clear_all"
    /\ UNCHANGED <<exported, exportedFrom, uploaded>>
    /\ IdleRun

\* download of the current configuration
Export ==
    /\ folders # <<>>
    /\ exported' = JsonDumps(folders)
    /\ exportedFrom' = folders
    /\ lastOp' = "export"
    /\ UNCHANGED <<folders, disk, uploaded>>
    /\ IdleRun

\* upload of a document
Import ==
    /\ \E doc \in UploadDocs \cup (IF exported = <<>> THEN {} ELSE {exported}) :
          LET imported_config == JsonLoad(doc)
          IN /\ uploaded' = doc
             /\ IF ~imported_config.ok
                THEN /\ lastOp' = "import_failed"
                     /\ UNCHANGED <<folders, disk>>
                ELSE IF ImportHasFolders(imported_config)
                THEN /\ folders' = ImportedFolders(folders, imported_config)
                     /\ disk' = SavedAfter(folders')
                     /\ lastOp' = "import_ok"
                ELSE /\ lastOp' = "import_invalid"
                     /\ UNCHANGED <<folders, disk>>
    /\ UNCHANGED <<exported, exportedFrom>>
    /\ IdleRun

RunIdle ==
    /\ pc = "idle" /\ i = 0 /\ visited = {}
    /\ all_tables = <<>> /\ all_warning_samples = <<>>
    /\ folder_status = EmptyStatus
    /\ merged_all = NoneDF /\ combined_warnings = <<>>

\* session start: st.session_state.folders = load_config()
InitConfig ==
    /\ disk \in {NoFile, Unreadable} \cup { JsonDumps(l) : l \in ConfigLists }
    /\ folders = load_config(disk)
    /\ exported = <<>> /\ exportedFrom = <<>> /\ uploaded = <<>>
    /\ lastOp = "none"
    /\ RunIdle

NextConfig ==
    \/ AddFolder
    \/ AddConfig
    \/ DeleteFolder
    \/ ClearCurrent
    \/ ClearAll
    \/ Export
    \/ Import

SpecConfig == InitConfig /\ [][NextConfig]_vars

ConfigTypeOK ==
    /\ Len(folders) <= MaxFolders
    /\ lastOp \in {"none", "add_folder", "add_config", "delete", "clear_current",
                   "clear_all", "export", "import_ok", "import_invalid", "import_failed"}

(***************************************************************************)
(* Properties of the configuration store (checked under SpecConfig).       *)
(***************************************************************************)
FlushingOps == {"add_folder", "add_config", "delete", "clear_all", "import_ok"}

LacksFoldersKey(doc) ==
    LET c == JsonLoad(doc) IN ~(c.ok /\ c.kind = "dict" /\ "folders" \in c.keys)

ImportOps == {"import_ok", "import_invalid", "import_failed"}

\* C7: an import of a document whose top level lacks the 'folders' key
\* reports an error and changes neither the in-memory folder list nor the
\* configuration file.
C7_ImportRejected ==
    [][ (lastOp' \in ImportOps /\ LacksFoldersKey(uploaded')) =>
            /\ lastOp' \in {"import_invalid", "import_failed"}
            /\ folders' = folders
            /\ disk' = disk ]_vars

\* C7 witness: a well-formed document without the key was rejected while
\* the store held entries.
C7_Witness ==
    /\ lastOp = "import_invalid"
    /\ JsonLoad(uploaded).ok /\ JsonLoad(uploaded).keys # {}
    /\ folders # <<>>
    /\ load_config(disk) = folders

(***************************************************************************)
(* Table cells.  A cell is text as extracted, a missing value (NaN/NaT),   *)
(* or a Timestamp; day counts days, fmt is the way the text is written.    *)
(***************************************************************************)
DateText(day, fmt) == [k |-> "date", day |-> day, fmt |-> fmt]
Junk == [k |-> "junk", day |-> 0, fmt |-> ""]
Blank == [k |-> "blank", day |-> 0, fmt |-> ""]
NaN == [k |-> "nan", day |-> 0, fmt |-> ""]
Timestamp(day) == [k |-> "ts", day |-> day, fmt |-> ""]
NaT == [k |-> "nat", day |-> 0, fmt |-> ""]

\* pd.Timestamp.now(), as a day number
Now == 1000

\* the 30-day band of '⚠️ 接近超期'
NearDays == 30

\* pd.to_datetime(value, errors='coerce')
ToDatetimeCoerce(cell) ==
    IF cell.k = "date" THEN Timestamp(cell.day)
    ELSE IF cell.k = "ts" THEN cell
    ELSE NaT

\* pd.to_datetime(value) with the default errors='raise' raises on text that
\* is not a date; empty text and missing values become NaT
ToDatetimeRaises(cell) == cell.k = "junk"

\* .dt.strftime('%Y-%m-%d')
Strftime(ts) == IF ts.k = "ts" THEN DateText(ts.day, "iso") ELSE NaN

\* numbers of a float Series: a value or NaN
Num(v) == [def |-> TRUE, v |-> v]
NumNaN == [def |-> FALSE, v |-> 0]

(***************************************************************************)
(* The documents on disk.                                                  *)
(***************************************************************************)
Ago(e, fmt) == DateText(Now - e, fmt)
Row2(a, b) == "start" :> a @@ "end" :> b
Row1(a) == "start" :> a

FileSystem ==
    "/data/empty" :> <<>> @@
    "/data/allbad" :>
        << [name |-> "b1.docx", corrupt |-> TRUE, tables |-> <<>>],
           [name |-> "b2.docx", corrupt |-> FALSE, tables |-> <<>>] >> @@
    "/data/mixed" :>
        << [name |-> "m1.docx", corrupt |-> FALSE, tables |->
              << [columns |-> {"start", "end"},
                  rows |-> << Row2(Ago(9, "slash"), Ago(0, "iso")),
                              Row2(Ago(10, "slash"), Ago(0, "iso")) >>] >>],
           [name |-> "m2.docx", corrupt |-> FALSE, tables |->
              << [columns |-> {"start", "end"},
                  rows |-> << Row2(Ago(11, "slash"), Ago(0, "iso")),
                              Row2(Ago(40, "slash"), Junk),
                              Row2(Junk, Ago(0, "iso")) >>] >>],
           [name |-> "m3.docx", corrupt |-> FALSE, tables |->
              << [columns |-> {"start"},
                  rows |-> << Row1(Ago(41, "slash")), Row1(Blank) >>] >>],
           [name |-> "m4.docx", corrupt |-> TRUE, tables |-> <<>>] >> @@
    "/data/clean" :>
        << [name |-> "c1.docx", corrupt |-> FALSE, tables |->
              << [columns |-> {"start", "end"},
                  rows |-> << Row2(Ago(10, "iso"), Ago(0, "iso")),
                              Row2(Ago(41, "iso"), Ago(1, "iso")),
                              Row2(Junk, Ago(0, "iso")),
                              Row2(Ago(40, "iso"), Blank),
                              Row2(Ago(0 - 1, "iso"), Ago(0, "iso")) >>] >>] >>

\* os.path.exists(folder_path)
PathExists(folder_path) == folder_path \in DOMAIN FileSystem

\* Path(folder_path).rglob("*.docx")
get_all_word_files(folder_path) == FileSystem[folder_path]

\* Document(file_path) fails on a corrupt file and [] is returned
extract_tables_from_word(file) == IF file.corrupt THEN <<>> ELSE file.tables

(***************************************************************************)
(* DataFrames: a set of column names and a sequence of rows.  A row keeps  *)
(* its cells, the injected 文件名 / 来源文件夹 columns, and entry, the        *)
(* position of its folder entry in the folder list.                        *)
(***************************************************************************)
\* table['文件名'] = file_path.name; table['来源文件夹'] = folder_name
TagTable(table, file_name, folder_name, entry) ==
    [columns |-> table.columns,
     rows |-> [r \in 1..Len(table.rows) |->
                 [cells |-> table.rows[r], file |-> file_name,
                  folder |-> folder_name, entry |-> entry]]]

RECURSIVE TagTables(_, _, _, _)
TagTables(tables, file_name, folder_name, entry) ==
    IF tables = <<>> THEN <<>>
    ELSE << TagTable(tables[1], file_name, folder_name, entry) >>
         \o TagTables(Tail(tables), file_name, folder_name, entry)

\* the loop over word_files
RECURSIVE ScanFiles(_, _, _, _)
ScanFiles(word_files, folder_name, entry, acc) ==
    IF word_files = <<>> THEN acc
    ELSE LET file == word_files[1]
             tables == extract_tables_from_word(file)
             next == IF tables # <<>>
                     THEN [folder_tables |-> acc.folder_tables
                               \o TagTables(tables, file.name, folder_name, entry),
                           processed_files |-> acc.processed_files + 1,
                           failed_files |-> acc.failed_files]
                     ELSE [folder_tables |-> acc.folder_tables,
                           processed_files |-> acc.processed_files,
                           failed_files |-> Append(acc.failed_files, file.name)]
         IN ScanFiles(Tail(word_files), folder_name, entry, next)

RECURSIVE ConcatColumns(_)
ConcatColumns(tables) ==
    IF tables = <<>> THEN {} ELSE tables[1].columns \cup ConcatColumns(Tail(tables))

RECURSIVE ConcatRows(_)
ConcatRows(tables) ==
    IF tables = <<>> THEN <<>> ELSE tables[1].rows \o ConcatRows(Tail(tables))

\* pd.concat(tables, ignore_index=True): union of the columns, NaN where a
\* table has no such column
Concat(tables) ==
    LET columns == ConcatColumns(tables)
        rows == ConcatRows(tables)
    IN [columns |-> columns,
        rows |-> [r \in 1..Len(rows) |->
                    [rows[r] EXCEPT !.cells =
                        [c \in columns |->
                            IF c \in DOMAIN rows[r].cells THEN rows[r].cells[c]
                            ELSE NaN]]]]

\* df[col], as the sequence of its values
Column(df, col) == [r \in 1..Len(df.rows) |-> df.rows[r].cells[col]]

\* df[col] = values
AssignColumn(df, col, values) ==
    [df EXCEPT !.rows =
        [r \in 1..Len(df.rows) |-> [df.rows[r] EXCEPT !.cells[col] = values[r]]]]

\* pd.to_datetime(series, errors='coerce')
to_datetime(series) == [r \in 1..Len(series) |-> ToDatetimeCoerce(series[r])]

\* `end_col and end_col in df.columns`
HasEndColumn(df, end_col) == end_col.t = "str" /\ end_col.s # "" /\ end_col.s \in df.columns

\* (end_dates - df[start_col]).dt.days
DaysDiff(end_date, start_date) ==
    IF end_date.k = "ts" /\ start_date.k = "ts" THEN Num(end_date.day - start_date.day)
    ELSE NumNaN

\* stability_days - days_diff
Remaining(stability_days, diff) ==
    IF diff.def THEN Num(stability_days - diff.v) ELSE NumNaN

\* days_diff > warning_days
OverWarning(diff, warning_days) == diff.def /\ diff.v > warning_days

process_date_warnings(df, rule) ==
    IF rule.start_column \notin df.columns
    THEN [df |-> df, warning_results |-> <<>>]
    ELSE LET start_col == rule.start_column
             end_col == rule.end_column
             df1 == AssignColumn(df, start_col, to_datetime(Column(df, start_col)))
             n == Len(df1.rows)
             end_dates == IF HasEndColumn(df1, end_col)
                          THEN to_datetime(Column(df1, end_col.s))
                          ELSE [r \in 1..n |-> Timestamp(Now)]
             days_diff == [r \in 1..n |->
                             DaysDiff(end_dates[r], df1.rows[r].cells[start_col])]
             remaining_days == [r \in 1..n |->
                                  Remaining(rule.stability_days, days_diff[r])]
             warning_mask == [r \in 1..n |-> OverWarning(days_diff[r], rule.warning_days)]
         IN [df |-> df1,
             warning_results |->
                IF \E r \in 1..n : warning_mask[r]
                THEN << [mask |-> warning_mask,
                         days_diff |-> days_diff,
                         remaining_days |-> remaining_days] >>
                ELSE <<>>]

(***************************************************************************)
(* One iteration of `for folder_config in st.session_state.folders`.       *)
(***************************************************************************)
\* the lambda of the 状态 column
Status(x) == IF x <= 0 THEN "OVERDUE" ELSE IF x <= NearDays THEN "NEAR" ELSE "OK"

\* folder_merged[col] = pd.to_datetime(folder_merged[col]).dt.strftime('%Y-%m-%d')
FormatColumn(df, col) ==
    AssignColumn(df, col, [r \in 1..Len(df.rows) |->
                             Strftime(ToDatetimeCoerce(df.rows[r].cells[col]))])

\* the conversion of the end column raises when a value is not a date
FormatEndRaises(df, end_col) ==
    /\ HasEndColumn(df, end_col)
    /\ \E r \in 1..Len(df.rows) : ToDatetimeRaises(df.rows[r].cells[end_col.s])

\* folder_merged[mask] with 已用天数, 剩余稳定性期限(天) and 状态, without the
\* rows whose 状态 is '✅ 正常'
WarningSamples(df, warning) ==
    LET sample(r) == [row |-> df.rows[r],
                      index |-> r,
                      entry |-> df.rows[r].entry,
                      elapsed_days |-> warning.days_diff[r].v,
                      remaining_days |-> warning.remaining_days[r].v,
                      status |-> Status(warning.remaining_days[r].v)]
        Keep(r) == warning.mask[r] /\ sample(r).status # "OK"
        F[r \in 0..Len(df.rows)] ==
            IF r = 0 THEN <<>>
            ELSE IF Keep(r) THEN Append(F[r - 1], sample(r)) ELSE F[r - 1]
    IN F[Len(df.rows)]

\* The body of the loop for one folder entry.  kind tells which status list
\* records the folder ("none": no list); table is the DataFrame object that
\* all_tables refers to, as it is when the iteration ends.
process_folder(folder_config, entry) ==
    LET folder_name == folder_config.name
        folder_path == folder_config.path
        base == [kind |-> "none", appended |-> FALSE, table |-> NoneDF,
                 samples |-> <<>>, processed_files |-> 0, failed_files |-> <<>>,
                 message |-> ""]
    IN IF ~PathExists(folder_path)
       THEN [base EXCEPT !.kind = "error", !.message = "path does not exist"]
       ELSE LET word_files == get_all_word_files(folder_path)
            IN IF word_files = <<>>
               THEN [base EXCEPT !.kind = "empty"]
               ELSE LET scan == ScanFiles(word_files, folder_name, entry,
                                   [folder_tables |-> <<>>, processed_files |-> 0,
                                    failed_files |-> <<>>])
                    IN IF scan.folder_tables = <<>>
                       THEN [base EXCEPT !.failed_files = scan.failed_files]
                       ELSE LET rule == folder_config.rule
                                folder_merged == Concat(scan.folder_tables)
                                pdw == process_date_warnings(folder_merged, rule)
                                date_col == rule.start_column
                                end_col == rule.end_column
                                fm2 == IF date_col \in pdw.df.columns
                                       THEN FormatColumn(pdw.df, date_col)
                                       ELSE pdw.df
                            IN IF FormatEndRaises(fm2, end_col)
                               THEN [base EXCEPT !.kind = "error",
                                                 !.message = "to_datetime",
                                                 !.appended = TRUE,
                                                 !.table = fm2,
                                                 !.failed_files = scan.failed_files]
                               ELSE LET fm3 == IF HasEndColumn(fm2, end_col)
                                               THEN FormatColumn(fm2, end_col.s)
                                               ELSE fm2
                                        samples ==
                                            IF pdw.warning_results = <<>> THEN <<>>
                                            ELSE WarningSamples(fm3, pdw.warning_results[1])
                                    IN [base EXCEPT !.kind = "success",
                                                    !.appended = TRUE,
                                                    !.table = fm3,
                                                    !.samples = samples,
                                                    !.processed_files = scan.processed_files,
                                                    !.failed_files = scan.failed_files]

\* where the loop goes after an iteration (`continue` or the end of the body)
NextFolderBreak(k, n) == n + 1
NextFolder(k, n) == k + 1

\* a folder entry is recorded in a status list
RecordStatus(status, out, folder_name, entry) ==
    LET fe == IF out.failed_files # <<>>
              THEN (folder_name :> out.failed_files) @@ status.file_errors
              ELSE status.file_errors
    IN IF out.kind = "error"
       THEN [status EXCEPT !.file_errors = fe,
                !.error = Append(@, [entry |-> entry, name |-> folder_name,
                                     message |-> out.message])]
       ELSE IF out.kind = "empty"
       THEN [status EXCEPT !.empty = Append(@, [entry |-> entry, name |-> folder_name])]
       ELSE IF out.kind = "success"
       THEN [status EXCEPT !.file_errors = fe,
                !.success = Append(@, [entry |-> entry, name |-> folder_name,
                                       processed |-> out.processed_files,
                                       failed |-> Len(out.failed_files)])]
       ELSE [status EXCEPT !.file_errors = fe]

\* a script run of the page begins: the locals are fresh
StartRun ==
    /\ pc \in {"idle", "done"}
    /\ pc' = "loop"
    /\ i' = 1
    /\ visited' = {}
    /\ all_tables' = <<>>
    /\ all_warning_samples' = <<>>
    /\ folder_status' = EmptyStatus
    /\ merged_all' = NoneDF
    /\ combined_warnings' = <<>>
    /\ UNCHANGED configVars

ProcessFolder ==
    /\ pc = "loop"
    /\ i <= Len(folders)
    /\ LET out == process_folder(folders[i], i)
       IN /\ all_tables' = IF out.appended THEN Append(all_tables, out.table)
                           ELSE all_tables
          /\ all_warning_samples' = IF out.samples # <<>>
                                    THEN Append(all_warning_samples, out.samples)
                                    ELSE all_warning_samples
          /\ folder_status' = RecordStatus(folder_status, out, folders[i].name, i)
    /\ visited' = visited \cup {i}
    /\ i' = NextFolder(i, Len(folders))
    /\ UNCHANGED <<pc, merged_all, combined_warnings>>
    /\ UNCHANGED configVars

RECURSIVE Flatten(_)
Flatten(seqs) == IF seqs = <<>> THEN <<>> ELSE seqs[1] \o Flatten(Tail(seqs))

\* after the loop: the two report datasets
FinishRun ==
    /\ pc = "loop"
    /\ i > Len(folders)
    /\ merged_all' = IF all_tables # <<>> THEN Concat(all_tables) ELSE NoneDF
    /\ combined_warnings' = Flatten(all_warning_samples)
    /\ pc' = "done"
    /\ UNCHANGED <<i, visited, all_tables, all_warning_samples, folder_status>>
    /\ UNCHANGED configVars

(***************************************************************************)
(* The folder lists of SpecRun.                                            *)
(***************************************************************************)
RunRules ==
    { NewFolder("", "", "start", "", 9, 40).rule,
      NewFolder("", "", "start", "", 9, 41).rule,
      NewFolder("", "", "start", "", 10, 40).rule,
      NewFolder("", "", "start", "", 40, 40).rule,
      NewFolder("", "", "start", "end", 9, 40).rule,
      NewFolder("", "", "start", "other", 9, 40).rule,
      NewFolder("", "", "other", "", 9, 40).rule }

DefaultRule == NewFolder("", "", "start", "", 180, 365).rule

RunEntries ==
    { [name |-> "S", path |-> p, rule |-> DefaultRule] :
        p \in {"/data/missing", "/data/empty", "/data/allbad"} }
    \cup
    { [name |-> "S", path |-> p, rule |-> r] :
        p \in {"/data/mixed", "/data/clean"}, r \in RunRules }

RunLists == UNION { [1..k -> RunEntries] : k \in 0..MaxFolders }

InitRun ==
    /\ disk \in { JsonDumps(l) : l \in RunLists }
    /\ folders = load_config(disk)
    /\ exported = <<>> /\ exportedFrom = <<>> /\ uploaded = <<>>
    /\ lastOp = "none"
    /\ pc = "idle" /\ i = 0 /\ visited = {}
    /\ all_tables = <<>> /\ all_warning_samples = <<>>
    /\ folder_status = EmptyStatus
    /\ merged_all = NoneDF /\ combined_warnings = <<>>

NextRun ==
    \/ StartRun
    \/ ProcessFolder
    \/ FinishRun

SpecRun == InitRun /\ [][NextRun]_vars

RunTypeOK ==
    /\ pc \in {"idle", "loop", "done"}
    /\ i \in 0..(Len(folders) + 1)
    /\ Len(all_tables) <= Len(folders)

(***************************************************************************)
(* Properties of a pipeline run (checked under SpecRun).                   *)
(***************************************************************************)
Entries == 1..Len(folders)

\* the files of folder entry k that yield a table, and those that do not
YieldingFiles(k) ==
    LET files == FileSystem[folders[k].path]
    IN { f \in 1..Len(files) : ~files[f].corrupt /\ files[f].tables # <<>> }
FailingFiles(k) ==
    LET files == FileSystem[folders[k].path]
    IN { f \in 1..Len(files) : files[f].corrupt \/ files[f].tables = <<>> }

\* folder entry k has an existing path and at least one table
HasData(k) == PathExists(folders[k].path) /\ YieldingFiles(k) # {}

\* the rows of folder entry k as they were extracted from the documents
Extracted(k) ==
    Concat(ScanFiles(FileSystem[folders[k].path], folders[k].name, k,
                     [folder_tables |-> <<>>, processed_files |-> 0,
                      failed_files |-> <<>>]).folder_tables)

EndConfigured(k) ==
    LET e == folders[k].rule.end_column
    IN e.t = "str" /\ e.s # "" /\ e.s \in Extracted(k).columns

\* elapsed days of row r of folder entry k, from the extracted text
ElapsedDays(k, r) ==
    LET cells == Extracted(k).rows[r].cells
        s == cells[folders[k].rule.start_column]
        e == IF EndConfigured(k) THEN cells[folders[k].rule.end_column.s]
             ELSE DateText(Now, "iso")
    IN IF s.k = "date" /\ e.k = "date" THEN Num(e.day - s.day) ELSE NumNaN

\* row r of folder entry k belongs in the warning report
Flagged(k, r) ==
    LET el == ElapsedDays(k, r)
    IN /\ el.def
       /\ el.v > folders[k].rule.warning_days
       /\ folders[k].rule.stability_days - el.v <= 30

InReport(k, r) ==
    \E j \in 1..Len(combined_warnings) :
        combined_warnings[j].entry = k /\ combined_warnings[j].index = r

ReportedStatus(k, r) ==
    LET j == CHOOSE j \in 1..Len(combined_warnings) :
                combined_warnings[j].entry = k /\ combined_warnings[j].index = r
    IN combined_warnings[j].status

InSuccess(k) == \E j \in 1..Len(folder_status.success) : folder_status.success[j].entry = k
InEmpty(k) == \E j \in 1..Len(folder_status.empty) : folder_status.empty[j].entry = k
InError(k) == \E j \in 1..Len(folder_status.error) : folder_status.error[j].entry = k

\* how many records of the three status lists name folder entry k
StatusCount(k) ==
    Cardinality({ j \in 1..Len(folder_status.success) : folder_status.success[j].entry = k })
    + Cardinality({ j \in 1..Len(folder_status.empty) : folder_status.empty[j].entry = k })
    + Cardinality({ j \in 1..Len(folder_status.error) : folder_status.error[j].entry = k })

MergedRowsOf(k) == SelectSeq(merged_all.rows, LAMBDA row : row.entry = k)

\* C2: at the end of a run, a row whose start date parses is in the warning
\* report exactly when elapsed_days > warning_days and remaining_days <= 30,
\* with status OVERDUE when remaining_days <= 0 and NEAR otherwise.
C2_TwoGate ==
    pc = "done" =>
        \A k \in Entries :
            (HasData(k) /\ folders[k].rule.start_column \in Extracted(k).columns) =>
                \A r \in 1..Len(Extracted(k).rows) :
                    Extracted(k).rows[r].cells[folders[k].rule.start_column].k = "date" =>
                        /\ InReport(k, r) <=> Flagged(k, r)
                        /\ InReport(k, r) =>
                              ReportedStatus(k, r) =
                                 IF folders[k].rule.stability_days - ElapsedDays(k, r).v <= 0
                                 THEN "OVERDUE" ELSE "NEAR"

\* row r of folder entry k has a start value, or a configured and present
\* end value, that is not a date
Unparseable(k, r) ==
    LET cells == Extracted(k).rows[r].cells
    IN \/ cells[folders[k].rule.start_column].k # "date"
       \/ EndConfigured(k) /\ cells[folders[k].rule.end_column.s].k # "date"

\* C3: a row with an unparseable start or end value is left out of the
\* warning report, the other rows of its folder are still evaluated, and the
\* folder is reported as processed successfully.
C3_UnparseableNeverRaises ==
    pc = "done" =>
        \A k \in Entries :
            (HasData(k) /\ folders[k].rule.start_column \in Extracted(k).columns) =>
                \A r \in 1..Len(Extracted(k).rows) :
                    Unparseable(k, r) =>
                        /\ ~InReport(k, r)
                        /\ InSuccess(k)
                        /\ \A q \in 1..Len(Extracted(k).rows) :
                               Flagged(k, q) => InReport(k, q)

\* C4: at the end of a run, a folder whose path does not exist is in the
\* error list, has no row in the merged dataset or the warning dataset, and
\* every folder after it has been processed with the outcome it has on its own.
C4_MissingPathSkipped ==
    pc = "done" =>
        \A k \in Entries :
            ~PathExists(folders[k].path) =>
                /\ InError(k) /\ ~InSuccess(k) /\ ~InEmpty(k)
                /\ MergedRowsOf(k) = <<>>
                /\ \A j \in 1..Len(combined_warnings) : combined_warnings[j].entry # k
                /\ \A q \in (k + 1)..Len(folders) :
                      /\ q \in visited
                      /\ HasData(q) => MergedRowsOf(q) # <<>>
                      /\ (PathExists(folders[q].path) /\ FileSystem[folders[q].path] = <<>>)
                            => InEmpty(q)

\* C4 witness: a run over a missing folder followed by a folder with data
\* has ended with rows in both datasets.
C4_Witness ==
    /\ pc = "done"
    /\ Len(folders) = 2
    /\ ~PathExists(folders[1].path)
    /\ InError(1)
    /\ InSuccess(2)
    /\ MergedRowsOf(2) # <<>>
    /\ combined_warnings # <<>>

\* C5: a folder with an existing path in which some files fail and at least
\* one yields a table is in the success list with processed = the number of
\* yielding files and failed = the number of the others, and all rows of the
\* yielding files are in the folder's dataset.
C5_PartialSuccess ==
    pc = "done" =>
        \A k \in Entries :
            (HasData(k) /\ FailingFiles(k) # {}) =>
                /\ \E j \in 1..Len(folder_status.success) :
                      /\ folder_status.success[j].entry = k
                      /\ folder_status.success[j].processed = Cardinality(YieldingFiles(k))
                      /\ folder_status.success[j].failed = Cardinality(FailingFiles(k))
                /\ Len(MergedRowsOf(k)) = Len(Extracted(k).rows)
                /\ \A r \in 1..Len(Extracted(k).rows) :
                      MergedRowsOf(k)[r].file = Extracted(k).rows[r].file

\* C8: at the end of a run every folder entry is recorded in exactly one of
\* the success, empty and error lists.
C8_ExactlyOneStatus ==
    pc = "done" => \A k \in Entries : StatusCount(k) = 1

\* C9: at the end of a run the folders with rows in the merged dataset are
\* exactly the folders of the success list.
C9_MergedIffSuccess ==
    pc = "done" =>
        { merged_all.rows[r].entry : r \in 1..Len(merged_all.rows) }
            = { k \in Entries : InSuccess(k) }

\* C10: at the end of a run every cell of the merged dataset holds the value
\* that was extracted from the document.
C10_MergedUnchanged ==
    pc = "done" =>
        \A k \in Entries :
            MergedRowsOf(k) # <<>> =>
                \A r \in 1..Len(Extracted(k).rows) :
                    \A c \in Extracted(k).columns :
                        MergedRowsOf(k)[r].cells[c] = Extracted(k).rows[r].cells[c]

====
